---- MODULE Spec2Model ----
(***************************************************************************)
(* Attendance ledger of vcheckduty/be: the check-in, check-out, reason and *)
(* approval route handlers over the User, Office and Attendance            *)
(* collections.  A handler is a function from the stored documents and a   *)
(* request to a response and the documents it leaves behind; an action     *)
(* applies one handler to one request.  Time advances in ticks of          *)
(* 24/TicksPerDay hours and kept in milliseconds since the midnight that   *)
(* starts day 0; coordinates are metres along one meridian, where          *)
(* the great-circle distance of two points is the difference of their      *)
(* offsets.                                                                *)
(***************************************************************************)
EXTENDS Integers, Sequences, FiniteSets, TLC

VARIABLES users, offices, attendance, now, inflight, steps

vars == <<users, offices, attendance, now, inflight, steps>>

(* ---------------------------------------------------------------- bounds *)
MaxRecords == 2
MaxNow == 3
TicksPerDay == 2
MaxInflight == 2
MaxSteps == 5

(* ------------------------------------------------------------- constants *)
DefaultRadius == 50

Absent == <<>>

Some(v) == <<v>>

Users == {"o1", "s1", "a1"}
Offices == {"A", "B"}

UserRole == [o1 |-> "officer", s1 |-> "supervisor", a1 |-> "admin"]

OfficeLat == [A |-> 0, B |-> 100]

\* request inputs
CheckinUsers == {"o1", "s1"}
Lats == {50, 51}
Photos == {Absent}
MemberOps == {<<"A", "o1">>, <<"B", "o1">>, <<"A", "s1">>}
MemberActors == {"o1", "a1"}
PatchedUsers == {"o1"}
PatchedOffices == {"A"}
OfficePatches ==
  { [isActive |-> Some(FALSE), radius |-> Absent, lat |-> Absent],
    [isActive |-> Some(TRUE), radius |-> Absent, lat |-> Absent],
    [isActive |-> Absent, radius |-> Some(49), lat |-> Absent],
    [isActive |-> Absent, radius |-> Absent, lat |-> Some(1)] }
DeletedOffices == {"B"}
\* 20 s, 2 h 30 min, 8 h
Durations == {20000, 9000000, 28800000}
Types == {"checkin", "checkout"}
Decisions == {"approve", "reject"}
RejectionReasons == {Absent, Some("left early")}
Reasons == {"GPS drift"}
ReasonPhotos == {Absent, Some("img")}
RecordIds == 1..MaxRecords
Slots == 1..MaxInflight

Idle == [op |-> "idle"]

(* --------------------------------------------------------------- helpers *)
\* One more request served: a request that changes the stored documents counts
\* towards MaxSteps, a refused one does not.
Served(ok) ==
  /\ ok => steps < MaxSteps
  /\ steps' = IF ok THEN steps + 1 ELSE steps

Abs(x) == IF x < 0 THEN -x ELSE x

calculateDistance(lat1, lat2) == Abs(lat2 - lat1)

MsPerHour == 3600000

MsPerDay == 24 * MsPerHour

MsPerTick == MsPerDay \div TicksPerDay

\* setHours(0, 0, 0, 0) and setHours(23, 59, 59, 999) of the current time
StartOfDay(t) == (t \div MsPerDay) * MsPerDay

EndOfDay(t) == StartOfDay(t) + MsPerDay - 1

DayOf(t) == t \div MsPerDay

\* Attendance.create: the fields the check-in route passes, schema defaults
\* for the rest (every optional field is absent).
NewAttendance(u, o, lat, distance, status, checkinStatus, t, photo) ==
  [ user |-> u, office |-> o, location |-> lat, distance |-> distance,
    status |-> status,
    checkinStatus |-> checkinStatus,
    checkinApprovedBy |-> Absent, checkinApprovedAt |-> Absent,
    checkinRejectionReason |-> Absent,
    checkinTime |-> t, checkinPhoto |-> photo,
    checkinReason |-> Absent, checkinReasonPhoto |-> Absent,
    checkoutStatus |-> Absent,
    checkoutApprovedBy |-> Absent, checkoutApprovedAt |-> Absent,
    checkoutRejectionReason |-> Absent,
    checkoutTime |-> Absent, checkoutLocation |-> Absent,
    checkoutDistance |-> Absent, checkoutPhoto |-> Absent,
    checkoutReason |-> Absent, checkoutReasonPhoto |-> Absent,
    totalHours |-> Absent ]

\* The day window with $gt in place of $gte: the day's first instant is left out.
ExistingCheckinOpenWindow(att, u, t) ==
  { i \in 1..Len(att) :
      /\ att[i].user = u
      /\ att[i].checkinTime > StartOfDay(t)
      /\ att[i].checkinTime <= EndOfDay(t) }

\* Attendance.findOne({user, checkinTime: {$gte: startOfDay, $lte: endOfDay}})
ExistingCheckin(att, u, t) ==
  { i \in 1..Len(att) :
      /\ att[i].user = u
      /\ att[i].checkinTime >= StartOfDay(t)
      /\ att[i].checkinTime <= EndOfDay(t) }

(* ---------------------------------------------------------------- CheckIn *)
\* The checks with the target office compared with the user's assignment
\* in place of the membership test.
CheckInChecksAssignedOffice(u, o) ==
  IF ~users[u].isActive THEN "AccountInactive"
  ELSE IF users[u].officeId = Absent THEN "NoOfficeAssigned"
  ELSE IF ~offices[o].exists THEN "OfficeNotFound"
  ELSE IF ~offices[o].isActive THEN "OfficeInactive"
  ELSE IF users[u].officeId # Some(o) THEN "NotAMember"
  ELSE "pass"

\* The checks with membership tested before the office is looked at.
CheckInChecksMemberFirst(u, o) ==
  IF ~users[u].isActive THEN "AccountInactive"
  ELSE IF users[u].officeId = Absent THEN "NoOfficeAssigned"
  ELSE IF u \notin offices[o].members THEN "NotAMember"
  ELSE IF ~offices[o].exists THEN "OfficeNotFound"
  ELSE IF ~offices[o].isActive THEN "OfficeInactive"
  ELSE "pass"

\* POST /api/checkin up to the day-window lookup: the failure, or "pass".
CheckInChecks(u, o) ==
  IF ~users[u].isActive THEN "AccountInactive"
  ELSE IF users[u].officeId = Absent THEN "NoOfficeAssigned"
  ELSE IF ~offices[o].exists THEN "OfficeNotFound"
  ELSE IF ~offices[o].isActive THEN "OfficeInactive"
  ELSE IF u \notin offices[o].members THEN "NotAMember"
  ELSE "pass"

\* The threshold without its boundary.
CheckInStatusStrict(distance, radius) == IF distance < radius THEN "Valid" ELSE "Invalid"

\* isWithinRange ? 'Valid' : 'Invalid'
CheckInStatus(distance, radius) == IF distance <= radius THEN "Valid" ELSE "Invalid"

\* needsReason: !isWithinRange
NeedsReason(distance, radius) == ~(distance <= radius)

\* A check-in within range stored as approved at once.
CheckInCreateAutoApprove(att, u, o, lat, photo, t) ==
  LET distance == calculateDistance(lat, offices[o].lat)
      status == CheckInStatus(distance, offices[o].radius)
  IN  Append(att, NewAttendance(u, o, lat, distance, status,
                                IF status = "Valid" THEN "approved" ELSE "pending",
                                t, photo))

CheckInCreate(att, u, o, lat, photo, t) ==
  LET distance == calculateDistance(lat, offices[o].lat)
  IN  Append(att, NewAttendance(u, o, lat, distance,
                                CheckInStatus(distance, offices[o].radius),
                                "pending", t, photo))

CheckInHandler(u, o, lat, photo) ==
  LET pre == CheckInChecks(u, o)
  IN  IF pre # "pass" THEN [res |-> pre, att |-> attendance]
      ELSE IF ExistingCheckin(attendance, u, now) # {}
           THEN [res |-> "AlreadyCheckedInToday", att |-> attendance]
      ELSE [res |-> "OK", att |-> CheckInCreate(attendance, u, o, lat, photo, now),
            needsReason |-> NeedsReason(calculateDistance(lat, offices[o].lat),
                                        offices[o].radius)]

CheckIn ==
  \E u \in CheckinUsers, o \in Offices, lat \in Lats, photo \in Photos :
    LET out == CheckInHandler(u, o, lat, photo)
    IN  /\ out.res = "OK" => Len(attendance) < MaxRecords
        /\ Served(out.res = "OK")
        /\ attendance' = out.att
        /\ UNCHANGED <<users, offices, now, inflight>>

\* The same route as two steps of one request: the checks up to the day-window
\* findOne, then Attendance.create.  Other requests run in between.  Served
\* counts the request once, at its first step.
FreeSlots == { s \in Slots : inflight[s] = Idle }

CheckinSlots == { s \in Slots : inflight[s] # Idle /\ inflight[s].op = "checkin" }

CheckInBegin ==
  \E u \in CheckinUsers, o \in Offices, lat \in Lats, photo \in Photos :
    LET ok == CheckInHandler(u, o, lat, photo).res = "OK"
        distance == calculateDistance(lat, offices[o].lat)
        s == CHOOSE x \in FreeSlots : \A y \in FreeSlots : x <= y
    IN  /\ ok => /\ FreeSlots # {}
                 /\ Len(attendance) + Cardinality(CheckinSlots) < MaxRecords
        /\ Served(ok)
        /\ inflight' = IF ok
                       THEN [inflight EXCEPT ![s] =
                               [op |-> "checkin", user |-> u, office |-> o, lat |-> lat,
                                photo |-> photo, distance |-> distance,
                                status |-> CheckInStatus(distance, offices[o].radius)]]
                       ELSE inflight
        /\ UNCHANGED <<users, offices, attendance, now>>

CheckInCommit ==
  \E s \in Slots :
    /\ inflight[s] # Idle
    /\ inflight[s].op = "checkin"
    /\ attendance' = Append(attendance,
                            NewAttendance(inflight[s].user, inflight[s].office,
                                          inflight[s].lat, inflight[s].distance,
                                          inflight[s].status, "pending", now,
                                          inflight[s].photo))
    /\ inflight' = [inflight EXCEPT ![s] = Idle]
    /\ UNCHANGED <<users, offices, now, steps>>

(* --------------------------------------------------------------- CheckOut *)
\* The hours cut off after the second decimal.
TotalHoursTruncated(checkinT, checkoutT) ==
  (checkoutT - checkinT) \div (MsPerHour \div 100)

\* Math.round((ms / (1000 * 60 * 60)) * 100) / 100, kept in hundredths of an hour
\* (Math.round rounds half up: floor(x + 1/2)).
TotalHours(checkinT, checkoutT) ==
  LET ms == checkoutT - checkinT
  IN  (2 * ms + (MsPerHour \div 100)) \div (2 * (MsPerHour \div 100))

\* The lookup without the day window: any check-in of the user at the office.
TodayAttendanceAnyDay(att, u, o, t) ==
  LET match == { i \in 1..Len(att) : att[i].user = u /\ att[i].office = o }
  IN  { i \in match : \A j \in match : att[j].checkinTime <= att[i].checkinTime }

\* Attendance.findOne({user, office, checkinTime in today}).sort({checkinTime: -1}):
\* the matching records of the latest check-in time (the store breaks a tie as it likes).
TodayAttendance(att, u, o, t) ==
  LET match == { i \in 1..Len(att) :
                   /\ att[i].user = u
                   /\ att[i].office = o
                   /\ att[i].checkinTime >= StartOfDay(t)
                   /\ att[i].checkinTime <= EndOfDay(t) }
  IN  { i \in match : \A j \in match : att[j].checkinTime <= att[i].checkinTime }

\* The checks with the check-in's tests of assignment and membership added.
CheckOutChecksWithMembership(u, o) ==
  IF ~users[u].isActive THEN "AccountInactive"
  ELSE IF users[u].officeId = Absent THEN "NoOfficeAssigned"
  ELSE IF ~offices[o].exists THEN "OfficeNotFound"
  ELSE IF ~offices[o].isActive THEN "OfficeInactive"
  ELSE IF u \notin offices[o].members THEN "NotAMember"
  ELSE "pass"

CheckOutChecks(u, o) ==
  IF ~users[u].isActive THEN "AccountInactive"
  ELSE IF ~offices[o].exists THEN "OfficeNotFound"
  ELSE IF ~offices[o].isActive THEN "OfficeInactive"
  ELSE "pass"

\* The assignments with the record's status taken again from the check-out distance.
CheckOutFieldsRevalidating(rec, o, lat, photo, t) ==
  [rec EXCEPT !.checkoutTime = Some(t),
              !.checkoutLocation = Some(lat),
              !.checkoutDistance = Some(calculateDistance(lat, offices[o].lat)),
              !.checkoutStatus = Some("pending"),
              !.totalHours = Some(TotalHours(rec.checkinTime, t)),
              !.checkoutPhoto = photo,
              !.status = CheckInStatus(calculateDistance(lat, offices[o].lat),
                                       offices[o].radius)]

\* The fields the check-out route assigns before save().
CheckOutFields(rec, o, lat, photo, t) ==
  [rec EXCEPT !.checkoutTime = Some(t),
              !.checkoutLocation = Some(lat),
              !.checkoutDistance = Some(calculateDistance(lat, offices[o].lat)),
              !.checkoutStatus = Some("pending"),
              !.totalHours = Some(TotalHours(rec.checkinTime, t)),
              !.checkoutPhoto = photo]

\* The check refusing a second check-out only once the first one is approved.
AlreadyCheckedOutWhenApproved(rec) == rec.checkoutStatus = Some("approved")

\* if (todayAttendance.checkoutTime)
AlreadyCheckedOut(rec) == rec.checkoutTime # Absent

\* found: the record findOne returned (0 when it returned none).
CheckOutHandler(u, o, lat, photo, found) ==
  LET pre == CheckOutChecks(u, o)
  IN  IF pre # "pass" THEN [res |-> pre, att |-> attendance]
      ELSE IF found = 0 THEN [res |-> "NoCheckinFound", att |-> attendance]
      ELSE IF AlreadyCheckedOut(attendance[found])
           THEN [res |-> "AlreadyCheckedOut", att |-> attendance]
      ELSE [res |-> "OK",
            att |-> [attendance EXCEPT
                       ![found] = CheckOutFields(attendance[found], o, lat, photo, now)]]

FindOneResults(att, u, o, t) ==
  IF TodayAttendance(att, u, o, t) = {} THEN {0} ELSE TodayAttendance(att, u, o, t)

CheckOut ==
  \E u \in CheckinUsers, o \in Offices, lat \in Lats, photo \in Photos :
    \E found \in FindOneResults(attendance, u, o, now) :
      LET out == CheckOutHandler(u, o, lat, photo, found)
      IN  /\ Served(out.res = "OK")
          /\ attendance' = out.att
          /\ UNCHANGED <<users, offices, now, inflight>>

\* todayAttendance.save(): the paths the route assigned are written to the
\* stored document, the other paths of the stored document are left alone.
CheckOutSave(rec, doc) ==
  [rec EXCEPT !.checkoutTime = doc.checkoutTime,
              !.checkoutLocation = doc.checkoutLocation,
              !.checkoutDistance = doc.checkoutDistance,
              !.checkoutStatus = doc.checkoutStatus,
              !.totalHours = doc.totalHours,
              !.checkoutPhoto = doc.checkoutPhoto]

\* The route as two steps of one request: everything up to the assignments to
\* the document it read (checkoutTime is the time of this step), then save().
CheckOutBegin ==
  \E u \in CheckinUsers, o \in Offices, lat \in Lats, photo \in Photos :
    \E found \in FindOneResults(attendance, u, o, now) :
      LET ok == CheckOutHandler(u, o, lat, photo, found).res = "OK"
          s == CHOOSE x \in FreeSlots : \A y \in FreeSlots : x <= y
      IN  /\ ok => FreeSlots # {}
          /\ Served(ok)
          /\ inflight' = IF ok
                         THEN [inflight EXCEPT ![s] =
                                 [op |-> "checkout", id |-> found,
                                  doc |-> CheckOutFields(attendance[found], o, lat, photo, now)]]
                         ELSE inflight
          /\ UNCHANGED <<users, offices, attendance, now>>

CheckOutCommit ==
  \E s \in Slots :
    /\ inflight[s] # Idle
    /\ inflight[s].op = "checkout"
    /\ attendance' = [attendance EXCEPT
                        ![inflight[s].id] = CheckOutSave(@, inflight[s].doc)]
    /\ inflight' = [inflight EXCEPT ![s] = Idle]
    /\ UNCHANGED <<users, offices, now, steps>>

(* ----------------------------------------------------------- AttachReason *)
\* The assignments with the facet sent back to review.
ReasonFieldsReopening(rec, type, reason, reasonPhoto) ==
  IF type = "checkin"
  THEN [rec EXCEPT !.checkinReason = Some(reason),
                   !.checkinReasonPhoto = IF reasonPhoto # Absent THEN reasonPhoto ELSE @,
                   !.checkinStatus = "pending"]
  ELSE [rec EXCEPT !.checkoutReason = Some(reason),
                   !.checkoutReasonPhoto = IF reasonPhoto # Absent THEN reasonPhoto ELSE @,
                   !.checkoutStatus = Some("pending")]

ReasonFields(rec, type, reason, reasonPhoto) ==
  IF type = "checkin"
  THEN [rec EXCEPT !.checkinReason = Some(reason),
                   !.checkinReasonPhoto = IF reasonPhoto # Absent THEN reasonPhoto ELSE @]
  ELSE [rec EXCEPT !.checkoutReason = Some(reason),
                   !.checkoutReasonPhoto = IF reasonPhoto # Absent THEN reasonPhoto ELSE @]

\* The ownership test letting an admin through.
NotOwnerUnlessAdmin(u, rec) == rec.user # u /\ users[u].role # "admin"

\* attendance.user.toString() !== user._id.toString()
NotOwner(u, rec) == rec.user # u

\* The route with the reason assigned and saved before the ownership test.
AttachReasonHandlerSaveFirst(u, id, type, reason, reasonPhoto) ==
  IF reason = "" THEN [res |-> "ReasonRequired", att |-> attendance]
  ELSE IF id \notin 1..Len(attendance) THEN [res |-> "NotFound", att |-> attendance]
  ELSE IF NotOwner(u, attendance[id])
       THEN [res |-> "Forbidden",
             att |-> [attendance EXCEPT
                        ![id] = ReasonFields(attendance[id], type, reason, reasonPhoto)]]
  ELSE [res |-> "OK",
        att |-> [attendance EXCEPT
                   ![id] = ReasonFields(attendance[id], type, reason, reasonPhoto)]]

\* POST /api/attendance/reason
AttachReasonHandler(u, id, type, reason, reasonPhoto) ==
  IF reason = "" THEN [res |-> "ReasonRequired", att |-> attendance]
  ELSE IF id \notin 1..Len(attendance) THEN [res |-> "NotFound", att |-> attendance]
  ELSE IF NotOwner(u, attendance[id]) THEN [res |-> "Forbidden", att |-> attendance]
  ELSE [res |-> "OK",
        att |-> [attendance EXCEPT
                   ![id] = ReasonFields(attendance[id], type, reason, reasonPhoto)]]

AttachReason ==
  \E u \in Users, id \in RecordIds, type \in Types,
     reason \in Reasons, reasonPhoto \in ReasonPhotos :
    LET out == AttachReasonHandler(u, id, type, reason, reasonPhoto)
    IN  /\ Served(out.res = "OK")
        /\ attendance' = out.att
        /\ UNCHANGED <<users, offices, now, inflight>>

\* A save that writes the whole document the request holds.
SaveWhole(rec, read, doc) == doc

\* attendance.save() of a document loaded as `read` and assigned to `doc`:
\* the paths whose value was changed are written to the stored document, the
\* other paths of the stored document are left alone.
SaveModified(rec, read, doc) ==
  [f \in DOMAIN rec |-> IF doc[f] # read[f] THEN doc[f] ELSE rec[f]]

\* The route as two steps of one request: findById, the ownership test and
\* the assignments to the document it read, then save().
AttachReasonBegin ==
  \E u \in Users, id \in RecordIds, type \in Types,
     reason \in Reasons, reasonPhoto \in ReasonPhotos :
    LET out == AttachReasonHandler(u, id, type, reason, reasonPhoto)
        ok == out.res = "OK"
        s == CHOOSE x \in FreeSlots : \A y \in FreeSlots : x <= y
    IN  /\ ok => FreeSlots # {}
        /\ Served(ok)
        /\ inflight' = IF ok
                       THEN [inflight EXCEPT ![s] =
                               [op |-> "reason", id |-> id, type |-> type,
                                read |-> attendance[id], doc |-> out.att[id]]]
                       ELSE inflight
        /\ UNCHANGED <<users, offices, attendance, now>>

AttachReasonCommit ==
  \E s \in Slots :
    /\ inflight[s] # Idle
    /\ inflight[s].op = "reason"
    /\ attendance' = [attendance EXCEPT
                        ![inflight[s].id] =
                          SaveModified(@, inflight[s].read, inflight[s].doc)]
    /\ inflight' = [inflight EXCEPT ![s] = Idle]
    /\ UNCHANGED <<users, offices, now, steps>>

(* ---------------------------------------------------------------- Resolve *)
Resolved(action) == IF action = "approve" THEN "approved" ELSE "rejected"

\* The authorization check without the comparison of the two offices.
WrongJurisdictionAnyOffice(a, rec) ==
  /\ users[a].role = "supervisor"
  /\ users[a].officeId = Absent

\* The supervisor branch of the authorization check.
WrongJurisdiction(a, rec) ==
  /\ users[a].role = "supervisor"
  /\ (users[a].officeId = Absent \/ users[a].officeId # Some(rec.office))

\* The check-in branch refusing only an approved facet.
CheckinProcessedApprovedOnly(rec) == rec.checkinStatus = "approved"

\* "already processed": the check-in branch and the check-out branch.
CheckinProcessed(rec) == rec.checkinStatus # "pending"

CheckoutProcessed(rec) == rec.checkoutStatus # Absent /\ rec.checkoutStatus # Some("pending")

\* A decision on the check-in facet carried over to a pending check-out.
ResolveFieldsBothFacets(rec, a, type, action, t) ==
  IF type = "checkin"
  THEN [rec EXCEPT !.checkinStatus = Resolved(action),
                   !.checkinApprovedBy = Some(a),
                   !.checkinApprovedAt = Some(t),
                   !.checkoutStatus = IF @ = Some("pending") THEN Some(Resolved(action)) ELSE @]
  ELSE [rec EXCEPT !.checkoutStatus = Some(Resolved(action)),
                   !.checkoutApprovedBy = Some(a),
                   !.checkoutApprovedAt = Some(t)]

ResolveFields(rec, a, type, action, t) ==
  IF type = "checkin"
  THEN [rec EXCEPT !.checkinStatus = Resolved(action),
                   !.checkinApprovedBy = Some(a),
                   !.checkinApprovedAt = Some(t)]
  ELSE [rec EXCEPT !.checkoutStatus = Some(Resolved(action)),
                   !.checkoutApprovedBy = Some(a),
                   !.checkoutApprovedAt = Some(t)]

\* POST /api/attendance/approve.  The body's attendanceId, action and type are
\* read; a rejectionReason sent along is not.
ResolveHandler(a, id, type, action, rejectionReason) ==
  IF users[a].role \notin {"supervisor", "admin"}
  THEN [res |-> "Forbidden", att |-> attendance]
  ELSE IF id \notin 1..Len(attendance) THEN [res |-> "NotFound", att |-> attendance]
  ELSE IF WrongJurisdiction(a, attendance[id])
       THEN [res |-> "WrongJurisdiction", att |-> attendance]
  ELSE IF type = "checkin" /\ CheckinProcessed(attendance[id])
       THEN [res |-> "AlreadyResolved", att |-> attendance]
  ELSE IF type # "checkin" /\ CheckoutProcessed(attendance[id])
       THEN [res |-> "AlreadyResolved", att |-> attendance]
  ELSE [res |-> "OK",
        att |-> [attendance EXCEPT
                   ![id] = ResolveFields(attendance[id], a, type, action, now)]]

Resolve ==
  \E a \in Users, id \in RecordIds, type \in Types, action \in Decisions,
     rejectionReason \in RejectionReasons :
    LET out == ResolveHandler(a, id, type, action, rejectionReason)
    IN  /\ Served(out.res = "OK")
        /\ attendance' = out.att
        /\ UNCHANGED <<users, offices, now, inflight>>

\* A save that writes only while the stored facet is still pending.
ResolveSaveIfPending(rec, doc, type) ==
  IF type = "checkin"
  THEN IF rec.checkinStatus # "pending" THEN rec
       ELSE [rec EXCEPT !.checkinStatus = doc.checkinStatus,
                        !.checkinApprovedBy = doc.checkinApprovedBy,
                        !.checkinApprovedAt = doc.checkinApprovedAt]
  ELSE IF rec.checkoutStatus \notin {Absent, Some("pending")} THEN rec
       ELSE [rec EXCEPT !.checkoutStatus = doc.checkoutStatus,
                        !.checkoutApprovedBy = doc.checkoutApprovedBy,
                        !.checkoutApprovedAt = doc.checkoutApprovedAt]

\* attendance.save(): the three paths the route assigned are written to the
\* stored document, whatever it holds by then.
ResolveSave(rec, doc, type) ==
  IF type = "checkin"
  THEN [rec EXCEPT !.checkinStatus = doc.checkinStatus,
                   !.checkinApprovedBy = doc.checkinApprovedBy,
                   !.checkinApprovedAt = doc.checkinApprovedAt]
  ELSE [rec EXCEPT !.checkoutStatus = doc.checkoutStatus,
                   !.checkoutApprovedBy = doc.checkoutApprovedBy,
                   !.checkoutApprovedAt = doc.checkoutApprovedAt]

\* The route as two steps of one request: findById, the checks and the
\* assignments to the document it read (the timestamp is the time of this
\* step), then save().
ResolveBegin ==
  \E a \in Users, id \in RecordIds, type \in Types, action \in Decisions :
    LET ok == ResolveHandler(a, id, type, action, Absent).res = "OK"
        s == CHOOSE x \in FreeSlots : \A y \in FreeSlots : x <= y
    IN  /\ ok => FreeSlots # {}
        /\ Served(ok)
        /\ inflight' = IF ok
                       THEN [inflight EXCEPT ![s] =
                               [op |-> "resolve", id |-> id, type |-> type, by |-> a,
                                doc |-> ResolveFields(attendance[id], a, type, action, now)]]
                       ELSE inflight
        /\ UNCHANGED <<users, offices, attendance, now>>

ResolveCommit ==
  \E s \in Slots :
    /\ inflight[s] # Idle
    /\ inflight[s].op = "resolve"
    /\ attendance' = [attendance EXCEPT
                        ![inflight[s].id] =
                          ResolveSave(@, inflight[s].doc, inflight[s].type)]
    /\ inflight' = [inflight EXCEPT ![s] = Idle]
    /\ UNCHANGED <<users, offices, now, steps>>

(* ------------------------------------------------------------ ListPending *)
\* GET /api/attendance/approve: the records with a pending facet; the office
\* filter is added for a supervisor who has an officeId.
ListPendingHandler(a) ==
  IF users[a].role \notin {"supervisor", "admin"} THEN [res |-> "Forbidden", ids |-> {}]
  ELSE [res |-> "OK",
        ids |-> { i \in 1..Len(attendance) :
                   /\ \/ attendance[i].checkinStatus = "pending"
                      \/ attendance[i].checkoutStatus = Some("pending")
                   /\ (users[a].role = "supervisor" /\ users[a].officeId # Absent)
                        => Some(attendance[i].office) = users[a].officeId }]

\* A read: no document changes.
ListPending ==
  \E a \in Users :
    /\ ListPendingHandler(a).res \in {"OK", "Forbidden"}
    /\ UNCHANGED vars

(* ------------------------------------------------------------ membership *)
CanManageMembers(a) == users[a].role \in {"supervisor", "admin"}

AddMemberHandler(a, o, u) ==
  IF ~CanManageMembers(a) THEN [res |-> "Forbidden", offices |-> offices, users |-> users]
  ELSE IF ~offices[o].exists THEN [res |-> "OfficeNotFound", offices |-> offices, users |-> users]
  ELSE IF u \in offices[o].members
       THEN [res |-> "AlreadyMember", offices |-> offices, users |-> users]
  ELSE [res |-> "OK",
        offices |-> [offices EXCEPT ![o].members = @ \cup {u}],
        users |-> [users EXCEPT ![u].officeId = Some(o)]]

AddMember ==
  \E a \in MemberActors, m \in MemberOps :
    LET out == AddMemberHandler(a, m[1], m[2])
    IN  /\ Served(out.res = "OK")
        /\ offices' = out.offices
        /\ users' = out.users
        /\ UNCHANGED <<attendance, now, inflight>>

RemoveMemberHandler(a, o, u) ==
  IF ~CanManageMembers(a) THEN [res |-> "Forbidden", offices |-> offices, users |-> users]
  ELSE IF ~offices[o].exists THEN [res |-> "OfficeNotFound", offices |-> offices, users |-> users]
  ELSE IF u \notin offices[o].members
       THEN [res |-> "NotAMember", offices |-> offices, users |-> users]
  ELSE [res |-> "OK",
        offices |-> [offices EXCEPT ![o].members = @ \ {u}],
        users |-> [users EXCEPT ![u].officeId = Absent]]

RemoveMember ==
  \E a \in MemberActors, m \in MemberOps :
    LET out == RemoveMemberHandler(a, m[1], m[2])
    IN  /\ Served(out.res = "OK")
        /\ offices' = out.offices
        /\ users' = out.users
        /\ UNCHANGED <<attendance, now, inflight>>

\* The two routes as two steps of one request: the reads, the checks and
\* office.save(), then user.save() of the officeId path.
AddMemberBegin ==
  \E a \in MemberActors, m \in MemberOps :
    LET out == AddMemberHandler(a, m[1], m[2])
        ok == out.res = "OK"
        s == CHOOSE x \in FreeSlots : \A y \in FreeSlots : x <= y
    IN  /\ ok => FreeSlots # {}
        /\ Served(ok)
        /\ offices' = out.offices
        /\ inflight' = IF ok
                       THEN [inflight EXCEPT ![s] =
                               [op |-> "addMember", office |-> m[1], user |-> m[2],
                                officeId |-> Some(m[1])]]
                       ELSE inflight
        /\ UNCHANGED <<users, attendance, now>>

RemoveMemberBegin ==
  \E a \in MemberActors, m \in MemberOps :
    LET out == RemoveMemberHandler(a, m[1], m[2])
        ok == out.res = "OK"
        s == CHOOSE x \in FreeSlots : \A y \in FreeSlots : x <= y
    IN  /\ ok => FreeSlots # {}
        /\ Served(ok)
        /\ offices' = out.offices
        /\ inflight' = IF ok
                       THEN [inflight EXCEPT ![s] =
                               [op |-> "removeMember", office |-> m[1], user |-> m[2],
                                officeId |-> Absent]]
                       ELSE inflight
        /\ UNCHANGED <<users, attendance, now>>

MemberCommit ==
  \E s \in Slots :
    /\ inflight[s] # Idle
    /\ inflight[s].op \in {"addMember", "removeMember"}
    /\ users' = [users EXCEPT ![inflight[s].user].officeId = inflight[s].officeId]
    /\ inflight' = [inflight EXCEPT ![s] = Idle]
    /\ UNCHANGED <<offices, attendance, now, steps>>

(* ----------------------------------------------------------------- admin *)
\* PATCH /api/users/[id] by an admin, the isActive field.
PatchUserHandler(a, u, isActive) ==
  IF users[a].role # "admin" /\ a # u THEN [res |-> "Forbidden", users |-> users]
  ELSE IF users[a].role # "admin" THEN [res |-> "OK", users |-> users]
  ELSE [res |-> "OK", users |-> [users EXCEPT ![u].isActive = isActive]]

PatchUser ==
  \E a \in MemberActors, u \in PatchedUsers, isActive \in BOOLEAN :
    LET out == PatchUserHandler(a, u, isActive)
    IN  /\ Served(out.users # users)
        /\ users' = out.users
        /\ UNCHANGED <<offices, attendance, now, inflight>>

\* PATCH /api/offices/[id] by an admin: the fields of the body that are
\* defined replace the office's (isActive, radius, location).
PatchOfficeHandler(a, o, patch) ==
  IF users[a].role # "admin" THEN [res |-> "Forbidden", offices |-> offices]
  ELSE IF ~offices[o].exists THEN [res |-> "OfficeNotFound", offices |-> offices]
  ELSE [res |-> "OK",
        offices |-> [offices EXCEPT
                       ![o].isActive = IF patch.isActive # Absent THEN patch.isActive[1] ELSE @,
                       ![o].radius = IF patch.radius # Absent THEN patch.radius[1] ELSE @,
                       ![o].lat = IF patch.lat # Absent THEN patch.lat[1] ELSE @]]

PatchOffice ==
  \E a \in MemberActors, o \in PatchedOffices, patch \in OfficePatches :
    LET out == PatchOfficeHandler(a, o, patch)
    IN  /\ Served(out.offices # offices)
        /\ offices' = out.offices
        /\ UNCHANGED <<users, attendance, now, inflight>>

\* DELETE /api/offices/[id] by an admin: the office document is removed; the
\* users' officeId and the attendance records that name it are left as they are.
DeleteOfficeHandler(a, o) ==
  IF users[a].role # "admin" THEN [res |-> "Forbidden", offices |-> offices]
  ELSE IF ~offices[o].exists THEN [res |-> "OfficeNotFound", offices |-> offices]
  ELSE [res |-> "OK",
        offices |-> [offices EXCEPT ![o] = [exists |-> FALSE, isActive |-> FALSE,
                                             members |-> {}, radius |-> DefaultRadius,
                                             lat |-> OfficeLat[o]]]]

DeleteOffice ==
  \E a \in MemberActors, o \in DeletedOffices :
    LET out == DeleteOfficeHandler(a, o)
    IN  /\ Served(out.res = "OK")
        /\ offices' = out.offices
        /\ UNCHANGED <<users, attendance, now, inflight>>

(* ------------------------------------------------------------------ time *)
Tick ==
  /\ now < MaxNow * MsPerTick
  /\ now' = now + MsPerTick
  /\ Served(TRUE)
  /\ UNCHANGED <<users, offices, attendance, inflight>>

\* Time passing between two requests of a working day.
Elapse ==
  \E d \in Durations :
    /\ now + d <= MaxNow * MsPerTick
    /\ now' = now + d
    /\ Served(TRUE)
    /\ UNCHANGED <<users, offices, attendance, inflight>>

(* ------------------------------------------------------------------ spec *)
Init ==
  /\ users = [u \in Users |-> [role |-> UserRole[u], officeId |-> Absent, isActive |-> TRUE]]
  /\ offices = [o \in Offices |->
                  [exists |-> TRUE, isActive |-> TRUE, members |-> {},
                   radius |-> DefaultRadius, lat |-> OfficeLat[o]]]
  /\ attendance = <<>>
  /\ now = 0
  /\ steps = 0
  /\ inflight = [s \in Slots |-> Idle]

Next ==
  \/ CheckIn
  \/ CheckOut
  \/ AttachReason
  \/ Resolve
  \/ AddMember
  \/ RemoveMember
  \/ PatchUser
  \/ PatchOffice
  \/ DeleteOffice
  \/ Tick

Spec == Init /\ [][Next]_vars

\* Requests of several clients in flight at once: a check-in and a check-out
\* are their two steps.
NextRace ==
  \/ CheckInBegin
  \/ CheckInCommit
  \/ CheckOutBegin
  \/ CheckOutCommit
  \/ AddMember
  \/ RemoveMember
  \/ Tick

SpecRace == Init /\ [][NextRace]_vars

\* Approval requests of several supervisors in flight at once: a Resolve is
\* its two steps.
NextResolveRace ==
  \/ CheckIn
  \/ ResolveBegin
  \/ ResolveCommit
  \/ AddMember
  \/ Tick

SpecResolveRace == Init /\ [][NextResolveRace]_vars

\* The review of attendance: check-ins and check-outs of members, reasons,
\* approvals and rejections.
NextReview ==
  \/ AddMember
  \/ CheckIn
  \/ CheckOut
  \/ AttachReason
  \/ Resolve
  \/ ListPending
  \/ Tick

SpecReview == Init /\ [][NextReview]_vars

\* Membership management and the check-ins and check-outs that depend on it.
NextMembers ==
  \/ AddMember
  \/ RemoveMember
  \/ CheckIn
  \/ CheckOut
  \/ Tick

SpecMembers == Init /\ [][NextMembers]_vars

\* Membership requests in flight while members check in: an addMember and a
\* removeMember are their two steps.
NextMemberRace ==
  \/ AddMemberBegin
  \/ RemoveMemberBegin
  \/ MemberCommit
  \/ CheckIn
  \/ Tick

SpecMemberRace == Init /\ [][NextMemberRace]_vars

\* Two requests of different kinds in flight at once, each in its two steps,
\* read and save: a request of a kind is read while at most one request, of
\* another kind, is held between its read and its save.
OthersInFlight(op) ==
  /\ \A s \in Slots : inflight[s] # Idle => inflight[s].op # op
  /\ Cardinality({ s \in Slots : inflight[s] # Idle }) <= 1

\* The record the requests meet on: the first member's first check-in.
FirstAddMember == (\A o \in Offices : offices[o].members = {}) /\ AddMember

FirstCheckIn == attendance = <<>> /\ CheckIn

SoleAttachReasonBegin == OthersInFlight("reason") /\ AttachReasonBegin

SoleResolveBegin == OthersInFlight("resolve") /\ ResolveBegin

SoleCheckOutBegin == OthersInFlight("checkout") /\ CheckOutBegin

NextSaveRace ==
  \/ FirstAddMember
  \/ FirstCheckIn
  \/ SoleAttachReasonBegin
  \/ AttachReasonCommit
  \/ SoleResolveBegin
  \/ ResolveCommit
  \/ SoleCheckOutBegin
  \/ CheckOutCommit

SpecSaveRace == Init /\ [][NextSaveRace]_vars

\* A working day: check-in, time passing by any of Durations, check-out.
NextHours ==
  \/ AddMember
  \/ CheckIn
  \/ Elapse
  \/ CheckOut

SpecHours == Init /\ [][NextHours]_vars

(* ---------------------------------------------------------------- claims *)
Records == 1..Len(attendance)

CheckinResolved(rec) == rec.checkinStatus \in {"approved", "rejected"}

CheckoutResolved(rec) == rec.checkoutStatus \in {Some("approved"), Some("rejected")}

FacetResolved(rec, type) ==
  IF type = "checkin" THEN CheckinResolved(rec) ELSE CheckoutResolved(rec)

FacetPending(rec, type) ==
  IF type = "checkin" THEN rec.checkinStatus = "pending"
  ELSE rec.checkoutStatus = Some("pending")

\* C1: a record is created with checkinStatus pending, and once a facet's status
\* is approved or rejected no request changes that status again.
C1_StatusChangesAtMostOnce ==
  [][ /\ \A i \in Records :
           /\ CheckinResolved(attendance[i])
                => attendance'[i].checkinStatus = attendance[i].checkinStatus
           /\ CheckoutResolved(attendance[i])
                => attendance'[i].checkoutStatus = attendance[i].checkoutStatus
      /\ \A i \in 1..Len(attendance') :
           i \notin Records => attendance'[i].checkinStatus = "pending" ]_vars

\* C2: a Resolve request succeeds only when the named facet's status is exactly
\* pending; on a record without a checkout facet Resolve(checkout) does not
\* succeed and sets none of checkoutStatus, checkoutApprovedBy, checkoutApprovedAt.
C2_ResolveOnlyWhenPending ==
  \A a \in Users, id \in Records, type \in Types, action \in Decisions,
     rejectionReason \in RejectionReasons :
    LET out == ResolveHandler(a, id, type, action, rejectionReason)
    IN  /\ out.res = "OK" => FacetPending(attendance[id], type)
        /\ (type = "checkout" /\ attendance[id].checkoutStatus = Absent)
             => /\ out.att[id].checkoutStatus = Absent
                /\ out.att[id].checkoutApprovedBy = Absent
                /\ out.att[id].checkoutApprovedAt = Absent

\* C3 as stated: whoever the actor is, a Resolve request on a facet that is
\* approved or rejected fails with AlreadyResolved and changes nothing.
C3_AlreadyResolvedForEveryActor ==
  \A a \in Users, id \in Records, type \in Types, action \in Decisions,
     rejectionReason \in RejectionReasons :
    FacetResolved(attendance[id], type)
      => LET out == ResolveHandler(a, id, type, action, rejectionReason)
         IN  out.res = "AlreadyResolved" /\ out.att = attendance

\* C3 amended: a Resolve request on a facet that is approved or rejected fails
\* whoever the actor is and leaves every record as it was; the failure is
\* Forbidden for an officer, WrongJurisdiction for a supervisor whose office is
\* absent or is not the record's office, and AlreadyResolved for every other actor.
C3_ResolvedFacetStays ==
  \A a \in Users, id \in Records, type \in Types, action \in Decisions,
     rejectionReason \in RejectionReasons :
    FacetResolved(attendance[id], type)
      => LET out == ResolveHandler(a, id, type, action, rejectionReason)
         IN  /\ out.att = attendance
             /\ out.res = IF users[a].role = "officer" THEN "Forbidden"
                          ELSE IF /\ users[a].role = "supervisor"
                                  /\ users[a].officeId # Some(attendance[id].office)
                               THEN "WrongJurisdiction"
                          ELSE "AlreadyResolved"

\* A check-in facet resolved by one actor, and a second actor who is refused
\* with AlreadyResolved.
C3_Witness ==
  \E id \in Records, a \in Users :
    /\ CheckinResolved(attendance[id])
    /\ attendance[id].checkinApprovedBy # Some(a)
    /\ ResolveHandler(a, id, "checkin", "reject", Absent).res = "AlreadyResolved"

\* C4: a Resolve request with decision reject and no rejectionReason does not
\* succeed (MissingReason for an actor allowed to resolve) and leaves the facet pending.
C4_RejectNeedsReason ==
  \A a \in Users, id \in Records, type \in Types :
    FacetPending(attendance[id], type)
      => LET out == ResolveHandler(a, id, type, "reject", Absent)
         IN  /\ out.res # "OK"
             /\ out.res \notin {"Forbidden", "WrongJurisdiction"} => out.res = "MissingReason"
             /\ FacetPending(out.att[id], type)

\* C5: for each facet of every record the rejection reason is present exactly
\* when the facet's status is rejected.
C5_RejectionReasonIffRejected ==
  \A i \in Records :
    /\ attendance[i].checkinRejectionReason # Absent
         <=> attendance[i].checkinStatus = "rejected"
    /\ attendance[i].checkoutRejectionReason # Absent
         <=> attendance[i].checkoutStatus = Some("rejected")

\* C6: for each facet of every record the approver and the resolution timestamp
\* are present exactly when the facet's status is approved or rejected.
C6_ApproverIffResolved ==
  \A i \in Records :
    /\ attendance[i].checkinApprovedBy # Absent <=> CheckinResolved(attendance[i])
    /\ attendance[i].checkinApprovedAt # Absent <=> CheckinResolved(attendance[i])
    /\ attendance[i].checkoutApprovedBy # Absent <=> CheckoutResolved(attendance[i])
    /\ attendance[i].checkoutApprovedAt # Absent <=> CheckoutResolved(attendance[i])

MayResolve(a, office) ==
  \/ users[a].role = "admin"
  \/ users[a].role = "supervisor" /\ users[a].officeId = Some(office)

C7_Responses ==
  \A a \in Users, id \in Records, type \in Types, action \in Decisions,
     rejectionReason \in RejectionReasons :
    LET out == ResolveHandler(a, id, type, action, rejectionReason)
        rec == attendance[id]
    IN  /\ users[a].role = "officer"
             => out.res = "Forbidden" /\ out.att = attendance
        /\ (/\ users[a].role = "supervisor"
            /\ (users[a].officeId = Absent \/ users[a].officeId # Some(rec.office)))
             => out.res = "WrongJurisdiction" /\ out.att = attendance
        /\ users[a].role = "admin"
             => /\ out.res \in {"OK", "AlreadyResolved"}
                /\ FacetPending(rec, type) => out.res = "OK"

C7_ResolvedByAuthorized ==
  \A i \in Records :
    /\ (/\ CheckinResolved(attendance'[i])
        /\ attendance'[i].checkinStatus # attendance[i].checkinStatus)
         => \E a \in Users : /\ attendance'[i].checkinApprovedBy = Some(a)
                             /\ MayResolve(a, attendance[i].office)
    /\ (/\ CheckoutResolved(attendance'[i])
        /\ attendance'[i].checkoutStatus # attendance[i].checkoutStatus)
         => \E a \in Users : /\ attendance'[i].checkoutApprovedBy = Some(a)
                             /\ MayResolve(a, attendance[i].office)

\* C7: a facet becomes approved or rejected only by a request of an actor who
\* then is an admin, or a supervisor whose office is the record's office; an
\* officer gets Forbidden and a supervisor of no office or of another office
\* gets WrongJurisdiction, and neither changes a record; an admin is never
\* refused for their office and resolves every pending facet.
C7_ApprovalJurisdiction == []C7_Responses /\ [][C7_ResolvedByAuthorized]_vars

\* A facet resolved by the supervisor of the record's office, while that
\* supervisor is refused on a record of another office.
C7_Witness ==
  /\ \E i \in Records : attendance[i].checkinApprovedBy = Some("s1")
  /\ \E j \in Records :
       /\ users["s1"].officeId # Absent
       /\ users["s1"].officeId # Some(attendance[j].office)
       /\ ResolveHandler("s1", j, "checkin", "approve", Absent).res = "WrongJurisdiction"

HasRecordToday(u) ==
  \E i \in Records :
    attendance[i].user = u /\ DayOf(attendance[i].checkinTime) = DayOf(now)

\* C8: of the CheckIn requests of a user that pass the other preconditions, the
\* first of a local calendar day succeeds and creates the record, and every
\* later one of that day fails with AlreadyCheckedInToday and creates no
\* record, whichever office it targets.
C8_OneCheckInPerDay ==
  \A u \in CheckinUsers, o \in Offices, lat \in Lats, photo \in Photos :
    LET out == CheckInHandler(u, o, lat, photo)
    IN  /\ HasRecordToday(u) => out.res # "OK" /\ out.att = attendance
        /\ CheckInChecks(u, o) = "pass"
             => IF HasRecordToday(u)
                THEN out.res = "AlreadyCheckedInToday"
                ELSE /\ out.res = "OK"
                     /\ Len(out.att) = Len(attendance) + 1
                     /\ SubSeq(out.att, 1, Len(attendance)) = attendance
                     /\ out.att[Len(out.att)].user = u
                     /\ out.att[Len(out.att)].office = o
                     /\ out.att[Len(out.att)].checkinTime = now

\* A user with a check-in today at one office who is refused at another office
\* of which they are a member too.
C8_Witness ==
  \E u \in CheckinUsers, i \in Records, o \in Offices :
    /\ attendance[i].user = u
    /\ DayOf(attendance[i].checkinTime) = DayOf(now)
    /\ attendance[i].office # o
    /\ CheckInHandler(u, o, 50, Absent).res = "AlreadyCheckedInToday"

\* C9: at most one Attendance record per user and local calendar day, also when
\* two CheckIn requests of the user interleave.
C9_OneRecordPerUserDay ==
  \A i \in Records, j \in Records :
    (/\ i # j
     /\ attendance[i].user = attendance[j].user)
      => DayOf(attendance[i].checkinTime) # DayOf(attendance[j].checkinTime)

NoCheckinToday(u, o) ==
  ~ \E i \in Records :
      /\ attendance[i].user = u
      /\ attendance[i].office = o
      /\ DayOf(attendance[i].checkinTime) = DayOf(now)

\* C10: a CheckOut of an active user at an existing, active office fails with
\* NoCheckinFound and changes nothing whenever the user has no record of that
\* office with a check-in time in the current local calendar day.
C10_CheckOutNeedsCheckinToday ==
  \A u \in CheckinUsers, o \in Offices, lat \in Lats, photo \in Photos :
    \A found \in FindOneResults(attendance, u, o, now) :
      (CheckOutChecks(u, o) = "pass" /\ NoCheckinToday(u, o))
        => LET out == CheckOutHandler(u, o, lat, photo, found)
           IN  out.res = "NoCheckinFound" /\ out.att = attendance

\* A user whose check-in at the office was on an earlier day and who has none
\* today, refused with NoCheckinFound.
C10_Witness ==
  \E u \in CheckinUsers, o \in Offices, i \in Records :
    /\ attendance[i].user = u
    /\ attendance[i].office = o
    /\ DayOf(attendance[i].checkinTime) < DayOf(now)
    /\ NoCheckinToday(u, o)
    /\ \A found \in FindOneResults(attendance, u, o, now) :
         CheckOutHandler(u, o, 50, Absent, found).res = "NoCheckinFound"

\* C11: with requests served one after another, a CheckOut of an active user
\* at an existing, active office whose record of today at that office has a
\* checkout timestamp fails with AlreadyCheckedOut and changes nothing, so
\* checkoutTime, checkoutLocation, checkoutDistance, checkoutStatus and
\* totalHours stay as they were.
C11_NoDoubleCheckOut ==
  \A u \in CheckinUsers, o \in Offices, lat \in Lats, photo \in Photos, i \in Records :
    (/\ CheckOutChecks(u, o) = "pass"
     /\ attendance[i].user = u
     /\ attendance[i].office = o
     /\ DayOf(attendance[i].checkinTime) = DayOf(now)
     /\ attendance[i].checkoutTime # Absent)
      => \A found \in FindOneResults(attendance, u, o, now) :
           LET out == CheckOutHandler(u, o, lat, photo, found)
           IN  out.res = "AlreadyCheckedOut" /\ out.att = attendance

\* A record of today checked out at one position, and a further CheckOut of its
\* user from another position refused with AlreadyCheckedOut.
C11_Witness ==
  \E i \in Records, lat \in Lats :
    /\ attendance[i].checkoutTime # Absent
    /\ attendance[i].checkoutLocation # Some(lat)
    /\ DayOf(attendance[i].checkinTime) = DayOf(now)
    /\ users[attendance[i].user].isActive
    /\ \A found \in FindOneResults(attendance, attendance[i].user, attendance[i].office, now) :
         CheckOutHandler(attendance[i].user, attendance[i].office, lat, Absent, found).res
           = "AlreadyCheckedOut"

\* C12: once a record has a checkout timestamp no request writes its
\* checkoutTime or totalHours again, also when CheckOut requests interleave.
C12_CheckOutWrittenOnce ==
  [][ \A i \in Records :
        attendance[i].checkoutTime # Absent
          => /\ attendance'[i].checkoutTime = attendance[i].checkoutTime
             /\ attendance'[i].totalHours = attendance[i].totalHours ]_vars

FacetFields(rec, type) ==
  IF type = "checkin"
  THEN <<Some(rec.checkinStatus), rec.checkinApprovedBy, rec.checkinApprovedAt>>
  ELSE <<rec.checkoutStatus, rec.checkoutApprovedBy, rec.checkoutApprovedAt>>

ResolveSlots == { s \in Slots : inflight[s] # Idle /\ inflight[s].op = "resolve" }

\* A Resolve request of an actor allowed to resolve the record answers
\* AlreadyResolved only when the stored facet is approved or rejected, and
\* passes its checks on a stored pending facet whatever is in flight.
C13_ReadDecides ==
  \A a \in Users, id \in Records, type \in Types, action \in Decisions,
     rejectionReason \in RejectionReasons :
    LET out == ResolveHandler(a, id, type, action, rejectionReason)
    IN  /\ out.res = "AlreadyResolved" => FacetResolved(attendance[id], type)
        /\ (MayResolve(a, attendance[id].office) /\ FacetPending(attendance[id], type))
             => out.res = "OK"

\* The write of a request that passed its checks is made whatever the stored
\* facet holds by then, and leaves the facet with its own status, approver and
\* timestamp.
C13_LaterWriteWins ==
  \A s \in ResolveSlots :
    inflight'[s] = Idle
      => FacetFields(attendance'[inflight[s].id], inflight[s].type)
           = FacetFields(inflight[s].doc, inflight[s].type)

\* C13: of two interleaved Resolve requests on one pending facet the second is
\* refused with AlreadyResolved only if it reads the record after the first
\* one's write; when both read before either writes both succeed, and each
\* write leaves the facet with the status, approver and timestamp of that write.
C13_ResolveRace == []C13_ReadDecides /\ [][C13_LaterWriteWins]_vars

\* A facet approved by one request while a second request that read the facet
\* as pending still holds the opposite decision to write.
C13_Witness ==
  \E s \in ResolveSlots :
    /\ FacetResolved(attendance[inflight[s].id], inflight[s].type)
    /\ FacetFields(attendance[inflight[s].id], inflight[s].type)[1]
         # FacetFields(inflight[s].doc, inflight[s].type)[1]

\* C14: a record without a checkout timestamp has every field of the checkout
\* facet absent.
C14_NoCheckoutFacetBeforeCheckOut ==
  \A i \in Records :
    attendance[i].checkoutTime = Absent
      => /\ attendance[i].checkoutStatus = Absent
         /\ attendance[i].checkoutApprovedBy = Absent
         /\ attendance[i].checkoutApprovedAt = Absent
         /\ attendance[i].checkoutRejectionReason = Absent
         /\ attendance[i].checkoutLocation = Absent
         /\ attendance[i].checkoutDistance = Absent
         /\ attendance[i].checkoutPhoto = Absent
         /\ attendance[i].checkoutReason = Absent
         /\ attendance[i].checkoutReasonPhoto = Absent
         /\ attendance[i].totalHours = Absent

FirstViolated(u, o) ==
  IF ~users[u].isActive THEN "AccountInactive"
  ELSE IF users[u].officeId = Absent THEN "NoOfficeAssigned"
  ELSE IF ~offices[o].exists THEN "OfficeNotFound"
  ELSE IF ~offices[o].isActive THEN "OfficeInactive"
  ELSE IF u \notin offices[o].members THEN "NotAMember"
  ELSE IF HasRecordToday(u) THEN "AlreadyCheckedInToday"
  ELSE "OK"

\* C15: a CheckIn answers with the failure of the earliest violated
\* precondition in the order AccountInactive, NoOfficeAssigned, OfficeNotFound,
\* OfficeInactive, NotAMember, AlreadyCheckedInToday, and creates a record
\* only when none of them is violated.
C15_PreconditionOrder ==
  \A u \in CheckinUsers, o \in Offices, lat \in Lats, photo \in Photos :
    LET out == CheckInHandler(u, o, lat, photo)
    IN  /\ out.res = FirstViolated(u, o)
        /\ out.att # attendance
             => /\ users[u].isActive
                /\ users[u].officeId # Absent
                /\ offices[o].exists
                /\ offices[o].isActive
                /\ u \in offices[o].members
                /\ ~HasRecordToday(u)

\* A user with a record today asking for an inactive office of which they are
\* no member: three preconditions violated, OfficeInactive returned; and a
\* request for a removed office answered OfficeNotFound.
C15_Witness ==
  /\ \E u \in CheckinUsers, o \in Offices :
       /\ offices[o].exists
       /\ ~offices[o].isActive
       /\ u \notin offices[o].members
       /\ HasRecordToday(u)
       /\ CheckInHandler(u, o, 50, Absent).res = "OfficeInactive"
  /\ \E u \in CheckinUsers, o \in Offices :
       /\ ~offices[o].exists
       /\ CheckInHandler(u, o, 50, Absent).res = "OfficeNotFound"

Last(att) == att[Len(att)]

C17_ValidityThreshold ==
  \A u \in CheckinUsers, o \in Offices, lat \in Lats, photo \in Photos :
    LET out == CheckInHandler(u, o, lat, photo)
        D == Abs(lat - offices[o].lat)
        R == offices[o].radius
    IN  out.res = "OK"
          => /\ Last(out.att).distance = D
             /\ Last(out.att).status \in {"Valid", "Invalid"}
             /\ Last(out.att).status = "Valid" <=> D <= R
             /\ out.needsReason <=> Last(out.att).status = "Invalid"

\* A record at the boundary stored Valid and one a metre further stored Invalid.
C17_Witness ==
  \E i \in Records, j \in Records :
    /\ attendance[i].office = attendance[j].office
    /\ attendance[i].distance = offices[attendance[i].office].radius
    /\ attendance[i].status = "Valid"
    /\ attendance[j].distance = offices[attendance[j].office].radius + 1
    /\ attendance[j].status = "Invalid"

\* C18: the Valid/Invalid status of a record never changes after its creation,
\* whatever request is served: a check-out from any distance, a reason, an
\* approval or rejection, a change of the office's radius or location.
C18_StatusFrozen ==
  [][ \A i \in Records : attendance'[i].status = attendance[i].status ]_vars

\* A record still Valid after the office's radius shrank below its check-in
\* distance and its user checked out from outside the radius.
C18_Witness ==
  \E i \in Records :
    /\ attendance[i].status = "Valid"
    /\ attendance[i].distance > offices[attendance[i].office].radius
    /\ attendance[i].checkoutDistance # Absent
    /\ attendance[i].checkoutDistance[1] > offices[attendance[i].office].radius

\* C19: the totalHours of a checked-out record is the time from the record's
\* own check-in to its check-out in hours, rounded to two decimals (here in
\* hundredths of an hour: within half a hundredth of the exact value) and
\* never negative; 2 h 30 min gives 2.5 and 8 h gives 8.0.
C19_TotalHours ==
  \A i \in Records :
    attendance[i].checkoutTime # Absent
      => LET ms == attendance[i].checkoutTime[1] - attendance[i].checkinTime
             h == attendance[i].totalHours[1]
         IN  /\ attendance[i].totalHours # Absent
             /\ h >= 0
             /\ 2 * Abs(ms - h * (MsPerHour \div 100)) <= MsPerHour \div 100
             /\ ms = 9000000 => h = 250
             /\ ms = 28800000 => h = 800

\* A record checked out 2 h 30 min after its check-in, with 2.5 hours.
C19_Witness ==
  \E i \in Records :
    /\ attendance[i].checkoutTime = Some(attendance[i].checkinTime + 9000000)
    /\ attendance[i].totalHours = Some(250)

ReasonOf(rec) ==
  <<rec.checkinReason, rec.checkinReasonPhoto, rec.checkoutReason, rec.checkoutReasonPhoto>>

C20_Responses ==
  \A u \in Users, id \in Records, type \in Types,
     reason \in Reasons, reasonPhoto \in ReasonPhotos :
    attendance[id].user # u
      => LET out == AttachReasonHandler(u, id, type, reason, reasonPhoto)
         IN  out.res = "Forbidden" /\ out.att = attendance

C20_OnlyOwnerWrites ==
  \A i \in Records :
    ReasonOf(attendance'[i]) # ReasonOf(attendance[i])
      => \E type \in Types, reason \in Reasons, reasonPhoto \in ReasonPhotos :
           LET out == AttachReasonHandler(attendance[i].user, i, type, reason, reasonPhoto)
           IN  out.res = "OK" /\ attendance' = out.att

\* C20: an AttachReason of a user who is not the record's user is answered
\* Forbidden and changes nothing, whatever the requester's role; a reason or
\* reason photo of a record changes only by an AttachReason of the record's
\* own user.
C20_OnlyOwnerAttachesReason == []C20_Responses /\ [][C20_OnlyOwnerWrites]_vars

\* A record whose owner attached a reason, and the admin refused on it.
C20_Witness ==
  \E i \in Records :
    /\ attendance[i].checkinReason # Absent
    /\ UserRole[attendance[i].user] = "officer"
    /\ AttachReasonHandler("a1", i, "checkin", "GPS drift", Absent).res = "Forbidden"
    /\ AttachReasonHandler("s1", i, "checkout", "GPS drift", Some("img")).res = "Forbidden"

\* C21: an AttachReason of the record's own user succeeds whatever the status
\* of the facet, and the record differs afterwards in nothing but the reason
\* and the reason photo of the named facet; the other records are as before.
C21_ReasonChangesOnlyReason ==
  \A id \in Records, type \in Types, reason \in Reasons, reasonPhoto \in ReasonPhotos :
    LET out == AttachReasonHandler(attendance[id].user, id, type, reason, reasonPhoto)
        rec == attendance[id]
    IN  /\ out.res = "OK"
        /\ \A j \in Records : j # id => out.att[j] = attendance[j]
        /\ Len(out.att) = Len(attendance)
        /\ IF type = "checkin"
           THEN /\ out.att[id].checkinReason = Some(reason)
                /\ [out.att[id] EXCEPT !.checkinReason = rec.checkinReason,
                                        !.checkinReasonPhoto = rec.checkinReasonPhoto] = rec
           ELSE /\ out.att[id].checkoutReason = Some(reason)
                /\ [out.att[id] EXCEPT !.checkoutReason = rec.checkoutReason,
                                        !.checkoutReasonPhoto = rec.checkoutReasonPhoto] = rec

\* A reason attached to a check-in facet that is approved or rejected, with a
\* further AttachReason of the owner still answered OK.
C21_Witness ==
  \E i \in Records :
    /\ CheckinResolved(attendance[i])
    /\ attendance[i].checkinReason # Absent
    /\ attendance[i].checkinApprovedAt # Absent
    /\ AttachReasonHandler(attendance[i].user, i, "checkin", "GPS drift", Some("img")).res = "OK"

\* C22: a user is in an office's member set exactly when the user's office
\* assignment is that office.
C22_MembershipBidirectional ==
  \A u \in Users, o \in Offices :
    u \in offices[o].members <=> users[u].officeId = Some(o)

MemberSlots ==
  { s \in Slots : inflight[s] # Idle /\ inflight[s].op \in {"addMember", "removeMember"} }

\* C23: while an addMember or removeMember is being served no request sees
\* the office's member set updated and the user's office assignment not yet:
\* the user being added is not in the member set with another or no
\* assignment (a CheckIn of that user at the office is not answered
\* NoOfficeAssigned), the user being removed is not out of the member set
\* with the assignment still in place.
C23_MemberUpdateAtomic ==
  \A s \in MemberSlots :
    LET o == inflight[s].office
        u == inflight[s].user
    IN  IF inflight[s].op = "addMember"
        THEN /\ u \in offices[o].members => users[u].officeId = Some(o)
             /\ u \in CheckinUsers
                  => CheckInHandler(u, o, 50, Absent).res # "NoOfficeAssigned"
        ELSE u \notin offices[o].members => users[u].officeId # Some(o)

\* C24: the list a supervisor gets holds only records of the supervisor's
\* assigned office, none at all of any office when the supervisor has no
\* assignment; an admin gets every record with a pending facet.
C24_ListPendingScoped ==
  \A a \in Users :
    LET out == ListPendingHandler(a)
    IN  /\ users[a].role = "supervisor"
             => \A i \in out.ids : users[a].officeId = Some(attendance[i].office)
        /\ users[a].role = "admin"
             => out.ids = { i \in Records : \/ FacetPending(attendance[i], "checkin")
                                           \/ FacetPending(attendance[i], "checkout") }

\* C25: with requests served one at a time, a CheckIn, CheckOut, AttachReason
\* or Resolve that is answered with a failure leaves every record as it was.
C25_FailuresChangeNothing ==
  /\ \A u \in CheckinUsers, o \in Offices, lat \in Lats, photo \in Photos :
       /\ LET out == CheckInHandler(u, o, lat, photo)
          IN  out.res # "OK" => out.att = attendance
       /\ \A found \in FindOneResults(attendance, u, o, now) :
            LET out == CheckOutHandler(u, o, lat, photo, found)
            IN  out.res # "OK" => out.att = attendance
  /\ \A u \in Users, id \in RecordIds, type \in Types :
       /\ \A reason \in Reasons \cup {""}, reasonPhoto \in ReasonPhotos :
            LET out == AttachReasonHandler(u, id, type, reason, reasonPhoto)
            IN  out.res # "OK" => out.att = attendance
       /\ \A action \in Decisions, rejectionReason \in RejectionReasons :
            LET out == ResolveHandler(u, id, type, action, rejectionReason)
            IN  out.res # "OK" => out.att = attendance

\* A state in which a request of each of the four kinds is refused: a second
\* check-in and a second check-out of the day, a reason from another user
\* and a resolution of a facet already resolved.
C25_Witness ==
  \E i \in Records :
    LET u == attendance[i].user
        o == attendance[i].office
    IN  /\ CheckInHandler(u, o, 50, Absent).res = "AlreadyCheckedInToday"
        /\ \A found \in FindOneResults(attendance, u, o, now) :
             CheckOutHandler(u, o, 50, Absent, found).res = "AlreadyCheckedOut"
        /\ AttachReasonHandler("a1", i, "checkin", "GPS drift", Absent).res = "Forbidden"
        /\ ResolveHandler("a1", i, "checkin", "approve", Absent).res = "AlreadyResolved"

\* C26: for an active user without a record today who is in the member set of
\* an existing, active office, a CheckIn at that office succeeds when the
\* user's office assignment is any office, the same or another, and is
\* answered NoOfficeAssigned when the assignment is empty.
C26_MembershipOfTargetOffice ==
  \A u \in CheckinUsers, o \in Offices, lat \in Lats, photo \in Photos :
    (/\ users[u].isActive
     /\ offices[o].exists
     /\ offices[o].isActive
     /\ u \in offices[o].members
     /\ ~HasRecordToday(u))
      => LET out == CheckInHandler(u, o, lat, photo)
         IN  IF users[u].officeId = Absent
             THEN out.res = "NoOfficeAssigned" /\ out.att = attendance
             ELSE out.res = "OK" /\ Last(out.att).office = o

\* A member of an office who is assigned to another office and whose CheckIn
\* at the first is accepted.
C26_Witness ==
  \E u \in CheckinUsers, o \in Offices :
    /\ u \in offices[o].members
    /\ users[u].officeId # Absent
    /\ users[u].officeId # Some(o)
    /\ ~HasRecordToday(u)
    /\ CheckInHandler(u, o, 50, Absent).res = "OK"

CheckinFacetOf(rec) ==
  <<rec.checkinStatus, rec.checkinApprovedBy, rec.checkinApprovedAt,
    rec.checkinRejectionReason, rec.checkinTime, rec.checkinPhoto,
    rec.checkinReason, rec.checkinReasonPhoto, rec.location, rec.distance, rec.status>>

CheckoutFacetOf(rec) ==
  <<rec.checkoutStatus, rec.checkoutApprovedBy, rec.checkoutApprovedAt,
    rec.checkoutRejectionReason, rec.checkoutTime, rec.checkoutLocation,
    rec.checkoutDistance, rec.checkoutPhoto, rec.checkoutReason,
    rec.checkoutReasonPhoto, rec.totalHours>>

\* C27: a successful Resolve of the check-in facet leaves every checkout field
\* of the record as it was, a successful Resolve of the check-out facet leaves
\* every check-in field as it was, and a CheckOut is accepted whatever the
\* status of the check-in facet and leaves the check-in fields as they were.
C27_FacetsIndependent ==
  /\ \A a \in Users, id \in Records, type \in Types, action \in Decisions,
        rejectionReason \in RejectionReasons :
       LET out == ResolveHandler(a, id, type, action, rejectionReason)
       IN  out.res = "OK"
             => IF type = "checkin"
                THEN CheckoutFacetOf(out.att[id]) = CheckoutFacetOf(attendance[id])
                ELSE CheckinFacetOf(out.att[id]) = CheckinFacetOf(attendance[id])
  /\ \A u \in CheckinUsers, o \in Offices, lat \in Lats, photo \in Photos :
       \A found \in FindOneResults(attendance, u, o, now) :
         LET out == CheckOutHandler(u, o, lat, photo, found)
         IN  /\ out.res = "OK"
                  => CheckinFacetOf(out.att[found]) = CheckinFacetOf(attendance[found])
             /\ (/\ CheckOutChecks(u, o) = "pass"
                 /\ found # 0
                 /\ attendance[found].checkoutTime = Absent)
                  => out.res = "OK"

\* A record whose check-in was rejected and whose check-out was approved.
C27_Witness ==
  \E i \in Records :
    /\ attendance[i].checkinStatus = "rejected"
    /\ attendance[i].checkoutTime # Absent
    /\ attendance[i].checkoutStatus = Some("approved")

OpenRecordToday(u, o) ==
  \E i \in Records :
    /\ attendance[i].user = u
    /\ attendance[i].office = o
    /\ DayOf(attendance[i].checkinTime) = DayOf(now)
    /\ attendance[i].checkoutTime = Absent

\* C28: a CheckOut of an active user at an existing, active office where the
\* user checked in today and has not checked out succeeds, whether or not the
\* user is still in the office's member set or has an office assignment.
C28_CheckOutIgnoresMembership ==
  \A u \in CheckinUsers, o \in Offices, lat \in Lats, photo \in Photos :
    (/\ users[u].isActive
     /\ offices[o].exists
     /\ offices[o].isActive
     /\ OpenRecordToday(u, o))
      => \A found \in FindOneResults(attendance, u, o, now) :
           LET out == CheckOutHandler(u, o, lat, photo, found)
           IN  /\ out.res = "OK"
               /\ out.att[found].checkoutTime = Some(now)
               /\ out.att[found].user = u
               /\ out.att[found].office = o

\* A user checked in at an office today, since removed from its member set
\* and left without an office assignment, whose CheckOut there is accepted.
C28_Witness ==
  \E u \in CheckinUsers, o \in Offices :
    /\ OpenRecordToday(u, o)
    /\ u \notin offices[o].members
    /\ users[u].officeId = Absent
    /\ \A found \in FindOneResults(attendance, u, o, now) :
         CheckOutHandler(u, o, 50, Absent, found).res = "OK"

C29_OnlyTodaysRecord ==
  \A i \in Records :
    /\ (attendance'[i].checkoutTime # attendance[i].checkoutTime
         \/ attendance'[i].totalHours # attendance[i].totalHours)
         => DayOf(attendance[i].checkinTime) = DayOf(now)
    /\ (DayOf(attendance[i].checkinTime) < DayOf(now) /\ attendance[i].checkoutTime = Absent)
         => /\ attendance'[i].checkoutTime = Absent
            /\ attendance'[i].totalHours = Absent

C29_EarlierDayDoesNotBlock ==
  \A u \in CheckinUsers, o \in Offices, lat \in Lats, photo \in Photos :
    (CheckInChecks(u, o) = "pass" /\ ~HasRecordToday(u))
      => CheckInHandler(u, o, lat, photo).res = "OK"

\* C29: a checkout timestamp and totalHours are written only to a record whose
\* check-in time is in the current local calendar day, so a record of an
\* earlier day without a check-out stays without one; and such a record does
\* not keep its user from checking in on a later day.
C29_UnclosedDayStaysOpen == [][C29_OnlyTodaysRecord]_vars /\ []C29_EarlierDayDoesNotBlock

\* A user with a record of an earlier day that has no check-out and with a
\* record of today.
C29_Witness ==
  \E i \in Records, j \in Records :
    /\ attendance[i].user = attendance[j].user
    /\ DayOf(attendance[i].checkinTime) < DayOf(now)
    /\ attendance[i].checkoutTime = Absent
    /\ attendance[i].totalHours = Absent
    /\ DayOf(attendance[j].checkinTime) = DayOf(now)

ReasonSlots == { s \in Slots : inflight[s] # Idle /\ inflight[s].op = "reason" }

CheckoutSlots == { s \in Slots : inflight[s] # Idle /\ inflight[s].op = "checkout" }

\* The fields the request in the slot assigned: the reason and, when one was
\* sent, the reason photo; the three resolution fields of the facet; the six
\* check-out fields.
PathsOf(slot) ==
  IF slot.op = "reason"
  THEN { f \in IF slot.type = "checkin"
               THEN {"checkinReason", "checkinReasonPhoto"}
               ELSE {"checkoutReason", "checkoutReasonPhoto"} :
           slot.doc[f] # slot.read[f] }
  ELSE IF slot.op = "resolve"
  THEN IF slot.type = "checkin"
       THEN {"checkinStatus", "checkinApprovedBy", "checkinApprovedAt"}
       ELSE {"checkoutStatus", "checkoutApprovedBy", "checkoutApprovedAt"}
  ELSE {"checkoutTime", "checkoutLocation", "checkoutDistance", "checkoutStatus",
        "totalHours", "checkoutPhoto"}

\* C30: the save of an AttachReason, a Resolve or a CheckOut that read the
\* record before another request saved writes its own fields and leaves every
\* other field of the stored record as the other request wrote it, so the
\* record ends with the reason (or the checkout data) and with the resolved
\* status, approver and timestamp.
C30_SavesKeepOtherFields ==
  [][ \A s \in ReasonSlots \cup ResolveSlots \cup CheckoutSlots :
        inflight'[s] = Idle
          => LET id == inflight[s].id
             IN  /\ \A f \in DOMAIN attendance[id] \ PathsOf(inflight[s]) :
                      attendance'[id][f] = attendance[id][f]
                 /\ \A f \in PathsOf(inflight[s]) :
                      attendance'[id][f] = inflight[s].doc[f] ]_vars

\* A check-in facet resolved while an AttachReason that read it pending has
\* yet to save, and a record holding a reason, a check-out and a resolution.
C30_Witness ==
  \/ \E s \in ReasonSlots :
       /\ inflight[s].read.checkinStatus = "pending"
       /\ inflight[s].type = "checkin"
       /\ CheckinResolved(attendance[inflight[s].id])
  \/ \E s \in CheckoutSlots :
       /\ inflight[s].doc.checkinStatus = "pending"
       /\ CheckinResolved(attendance[inflight[s].id])

====
